---------------------------- MODULE Spec2Model ----------------------------
(***************************************************************************)
(* Model of filter_foreignaffairs.py: the cross-run confirmation of        *)
(* "free-open" articles.  One run (main) loads state.json, bumps run_seq,  *)
(* fetches the feed, classifies every entry in a fresh browser context,    *)
(* advances the entry's record, prunes and saves.                          *)
(*                                                                         *)
(* A run is modelled as the sequence of its interactions with the          *)
(* environment: the feed fetch (which fails or delivers an entry list) and *)
(* one step per entry of the list (whose page check is free, gated, times  *)
(* out, raises, or whose browser context cannot be created).  Everything   *)
(* main does between two such interactions belongs to the same step: the   *)
(* step that leaves the loop also prunes, writes index.xml and saves       *)
(* state.json.                                                             *)
(*                                                                         *)
(* Spec is the program as shipped (CONFIRM_FREE_RUNS = 2); SpecCfg lets the *)
(* threshold be any of 1..MaxConfirm over fewer runs.  In both, a feed      *)
(* carries every link at most once; entries without a link may repeat.     *)
(* SpecDup is SpecCfg on feeds that may repeat a link, SpecCorrupt is Spec *)
(* started on a state.json the program did not write, SpecCrash is Spec    *)
(* with a process that can die inside save_state, and SpecPage is one call *)
(* of check_url_free_open with its two signal passes over a page.          *)
(*                                                                         *)
(* Left out of the records: title and last_seen_utc of a URL record are    *)
(* copied from the entry and the clock and never read back; debug.txt and  *)
(* the counters free_now, gated_now, published that only feed it.          *)
(* hist is a history variable: the program does not keep it.               *)
(***************************************************************************)
EXTENDS Integers, Sequences, FiniteSets, TLC

(***************************************************************************)
(* Bounds of the model                                                     *)
(***************************************************************************)
\* number of invocations of main that are explored
MaxRuns == 4
\* longest feed delivered by fetch_source_feed
MaxFeedLen == 3
\* largest configured confirmation threshold that is explored
MaxConfirm == 3
\* number of invocations explored when the threshold varies
MaxRunsCfg == 3
\* number of invocations explored from a malformed state.json
MaxRunsCorrupt == 2
\* number of invocations explored when the process can die in save_state
MaxRunsCrash == 3
\* number of invocations explored when a feed can carry a link twice
MaxRunsDup == 2

(***************************************************************************)
(* Program constants                                                       *)
(***************************************************************************)
\* src line 29: the threshold the program ships with
DefaultConfirm == 2
\* src line 23 (40 in the source, scaled to the feeds explored here)
MAX_ENTRIES == 2
\* src line 35 (168 in the source, scaled to the runs explored here)
PRUNE_AFTER_RUNS == 2

\* src line 32
MIN_VISIBLE_WORDS == 700

\* src lines 48-56: the first three of the seven phrases, in the order of
\* the list
PAYWALL_PHRASES ==
    <<"Finish reading this article for free", "Enter your email", "Get it Now">>

\* src line 166: the two phrases looked for next to an email input
CTA_PHRASES == <<"Get it Now", "Finish reading this article for free">>

\* the links a feed entry can carry; NoLink is an entry without "link"
URLs == {"A", "B"}
NoLink == ""
Links == URLs \cup {NoLink}

\* what the page check of one URL can run into (check_url_free_open)
Outcomes == {"free", "gated", "timeout", "error"}

VARIABLES
    CONFIRM_FREE_RUNS, \* the configured threshold (module constant of the source)
    file,              \* state.json
    output,            \* index.xml: the links of the items written by write_outputs
    now_utc,           \* the clock, one tick per invocation
    pc,                \* "idle" between runs, "loop" inside the for loop of
                       \* main, "raised" after a run that ended in a traceback,
                       \* "crashed" after one whose process died
    state,             \* main's state dict
    run_seq,           \* main's run_seq
    entries,           \* feed.entries[:MAX_ENTRIES] of the current (last) run
    fetched,           \* whether the current (last) run obtained the feed
    idx,               \* position of the for loop in entries
    items_xml,         \* main's items_xml: the links emitted so far in this run
    checked,           \* main's checked
    errors,            \* main's errors
    hist,              \* history: per URL and run_seq, the verdicts it was given
    pruned,            \* history: the calls of prune_state in the current (last) run
    prev_fetched,      \* history: whether the run before the current one obtained the feed
    cpc,               \* position of one call of check_url_free_open
    views,             \* what the signal passes of that call saw of the page
    passes,            \* what those passes returned: (gated, reason)
    result             \* what the call returned: (is_free, reason)

\* the variables of one page check, and those of main
pagevars == <<cpc, views, passes, result>>

mainvars == <<CONFIRM_FREE_RUNS, file, output, now_utc, pc, state, run_seq,
              entries, fetched, idx, items_xml, checked, errors, hist, pruned,
              prev_fetched>>

vars == <<CONFIRM_FREE_RUNS, file, output, now_utc, pc, state, run_seq, entries,
          fetched, idx, items_xml, checked, errors, hist, pruned, prev_fetched,
          cpc, views, passes, result>>

(***************************************************************************)
(* Helpers                                                                 *)
(***************************************************************************)
Range(s) == {s[i] : i \in 1..Len(s)}

SeqsUpTo(S, n) == UNION {[1..k -> S] : k \in 0..n}

Take(s, n) == SubSeq(s, 1, IF Len(s) < n THEN Len(s) ELSE n)

\* a dict without URL keys
EmptyRecs == [u \in {} |-> 0]

\* {"__meta__": {"run_seq": 0}}
FreshState == [meta |-> [run_seq |-> 0], recs |-> EmptyRecs]

\* the key of the meta entry in the state dict and in state.json
MetaKey == "__meta__"

\* A JSON value of another type than the program expects at its place is a
\* record with the one field ill_typed: "scalar" (a number, null: the in of
\* line 93 raises), "sequence" (a string or list without "run_seq": the
\* assignment of line 94 raises), "sequence_with_run_seq" (a string or list
\* with it: line 93 finds it), "run_seq" (a meta dict whose run_seq int()
\* cannot convert), "record" (a URL record that is no dict).
IllTyped(v) == "ill_typed" \in DOMAIN v

\* sort_keys=True: the keys of the dict in code point order, that is in the
\* order in which KeyOrder lists all keys ("A" < "B" < "__meta__")
KeyOrder == <<"A", "B", MetaKey>>

SortedKeys(S) ==
    LET in_dict(k) == k \in S IN SelectSeq(KeyOrder, in_dict)

\* mutant: the dump leaves out the first URL key
json_dump_DropsKey(st) ==
    LET keys == SortedKeys(DOMAIN st.recs \cup {MetaKey})
    IN  [i \in 1..(Len(keys) - 1) |->
            [key |-> keys[i + 1],
             val |-> IF keys[i + 1] = MetaKey THEN st.meta ELSE st.recs[keys[i + 1]]]]

\* json.dump(state, f, sort_keys=True) (line 105): the text of state.json as
\* the list of its members, one (key, value) per key of the dict, in key order
json_dump(st) ==
    LET keys == SortedKeys(DOMAIN st.recs \cup {MetaKey})
    IN  [i \in 1..Len(keys) |->
            [key |-> keys[i],
             val |-> IF keys[i] = MetaKey THEN st.meta ELSE st.recs[keys[i]]]]

\* json.load (line 88) of a document that is a JSON object: the dict
json_load(doc) ==
    [k \in {doc[i].key : i \in 1..Len(doc)} |->
        doc[CHOOSE i \in 1..Len(doc) : doc[i].key = k].val]

\* load_state (lines 85-100).  No file, text that is not JSON and a document
\* that is not an object give the fresh state; an object without "__meta__"
\* gets a fresh meta and one without "run_seq" in its meta gets run_seq 0,
\* the URL keys being kept; a meta on which line 93 or 94 raises gives the
\* fresh state (line 98); any other document is returned as it is.
load_state(f) ==
    IF f.kind # "object" THEN FreshState
    ELSE
        LET data == json_load(f.doc)
            recs == [u \in DOMAIN data \ {MetaKey} |-> data[u]]
        IN  IF MetaKey \notin DOMAIN data
            THEN [meta |-> [run_seq |-> 0], recs |-> recs]
            ELSE LET meta == data[MetaKey] IN
                 IF IllTyped(meta)
                 THEN IF meta.ill_typed \in {"scalar", "sequence"}
                      THEN FreshState
                      ELSE [meta |-> meta, recs |-> recs]
                 ELSE IF "run_seq" \notin DOMAIN meta
                 THEN [meta |-> [k \in DOMAIN meta \cup {"run_seq"} |->
                                    IF k = "run_seq" THEN 0 ELSE meta[k]],
                       recs |-> recs]
                 ELSE [meta |-> meta, recs |-> recs]

\* save_state (lines 103-105), run to its end: state.json holds the dump
save_state(st) == [kind |-> "object", doc |-> json_dump(st)]

\* line 253 raises: the meta is no dict, or int() cannot convert its run_seq
BumpRaises(st) == IllTyped(st.meta)

\* line 223 raises: some URL record is no dict
PruneRaises(st) == \E u \in DOMAIN st.recs : IllTyped(st.recs[u])

\* mutant: a page check that times out or raises keeps the item (fail-open)
check_url_free_open_FailOpen(outcome) ==
    CASE outcome = "free"    -> [is_free |-> TRUE,  reason |-> "free_open_words"]
      [] outcome = "gated"   -> [is_free |-> FALSE, reason |-> "gate_signal"]
      [] outcome = "timeout" -> [is_free |-> TRUE,  reason |-> "playwright_timeout_drop"]
      [] outcome = "error"   -> [is_free |-> TRUE,  reason |-> "playwright_error_drop"]

\* check_url_free_open: (is_free, reason) for what the page check ran into
check_url_free_open(outcome) ==
    CASE outcome = "free"    -> [is_free |-> TRUE,  reason |-> "free_open_words"]
      [] outcome = "gated"   -> [is_free |-> FALSE, reason |-> "gate_signal"]
      [] outcome = "timeout" -> [is_free |-> FALSE, reason |-> "playwright_timeout_drop"]
      [] outcome = "error"   -> [is_free |-> FALSE, reason |-> "playwright_error_drop"]

\* rec = state.get(url, {}) and the three reads with their defaults
prev_status(recs, url) == IF url \in DOMAIN recs THEN recs[url].last_status ELSE "None"
prev_seen_seq(recs, url) == IF url \in DOMAIN recs THEN recs[url].last_seen_seq ELSE -1
prev_streak(recs, url) == IF url \in DOMAIN recs THEN recs[url].free_streak ELSE 0

\* mutant: the streak survives one run without evaluation
IsConsecutive_SkipsOneRun(recs, url, rs) ==
    /\ prev_status(recs, url) = "FREE"
    /\ prev_seen_seq(recs, url) \in {rs - 1, rs - 2}

\* mutant: the streak survives a gap in the run sequence
IsConsecutive_NoGapCheck(recs, url, rs) ==
    prev_status(recs, url) = "FREE"

\* "consecutive means seen in immediately previous run and was FREE"
IsConsecutive(recs, url, rs) ==
    prev_status(recs, url) = "FREE" /\ prev_seen_seq(recs, url) = rs - 1

\* mutant: a consecutive FREE verdict counts twice
NewStreak_CountsTwice(recs, url, rs) ==
    IF IsConsecutive(recs, url, rs) THEN prev_streak(recs, url) + 2 ELSE 1

\* mutant: a streak only goes on while every URL of the store is FREE
NewStreak_Coupled(recs, url, rs) ==
    IF /\ IsConsecutive(recs, url, rs)
       /\ \A v \in DOMAIN recs : recs[v].last_status = "FREE"
    THEN prev_streak(recs, url) + 1 ELSE 1

\* mutant: a consecutive FREE verdict does not count
NewStreak_NoIncrement(recs, url, rs) ==
    IF IsConsecutive(recs, url, rs) THEN prev_streak(recs, url) ELSE 1

\* the streak of a URL found free in run rs
NewStreak(recs, url, rs) ==
    IF IsConsecutive(recs, url, rs) THEN prev_streak(recs, url) + 1 ELSE 1

\* mutant: a GATED verdict keeps the streak
NewRecord_KeepsStreak(recs, url, rs, res) ==
    IF res.is_free
    THEN [last_status |-> "FREE", last_reason |-> res.reason,
          free_streak |-> NewStreak(recs, url, rs), last_seen_seq |-> rs]
    ELSE [last_status |-> "GATED", last_reason |-> res.reason,
          free_streak |-> prev_streak(recs, url), last_seen_seq |-> rs]

\* the record main stores for url in run rs
NewRecord(recs, url, rs, res) ==
    IF res.is_free
    THEN [last_status |-> "FREE", last_reason |-> res.reason,
          free_streak |-> NewStreak(recs, url, rs), last_seen_seq |-> rs]
    ELSE [last_status |-> "GATED", last_reason |-> res.reason,
          free_streak |-> 0, last_seen_seq |-> rs]

\* state[url] = {...}
Store(recs, url, rec) ==
    [u \in DOMAIN recs \cup {url} |-> IF u = url THEN rec ELSE recs[u]]

\* mutant: one confirmation too few
Emits_OffByOne(rec, threshold) ==
    rec.last_status = "FREE" /\ rec.free_streak >= threshold - 1

\* mutant: one confirmation too many
Emits_Strict(rec, threshold) ==
    rec.last_status = "FREE" /\ rec.free_streak > threshold

\* if streak >= CONFIRM_FREE_RUNS: items_xml.append(...)
Emits(rec, threshold) ==
    rec.last_status = "FREE" /\ rec.free_streak >= threshold

\* prune_state: drop the URLs last seen before the cutoff
Stale(rec, rs) == rec.last_seen_seq < rs - PRUNE_AFTER_RUNS

prune_state(st, rs) ==
    [st EXCEPT !.recs = [u \in {k \in DOMAIN st.recs : ~Stale(st.recs[k], rs)}
                            |-> st.recs[u]]]

\* mutant: the counter is not bumped
Begin_NoBump(f, now) ==
    LET st == load_state(f)
    IN  [st EXCEPT !.meta = [run_seq |-> st.meta.run_seq, last_run_utc |-> now]]

\* mutant: the run starts from an empty store
Begin_FreshRecs(f, now) ==
    [meta |-> [run_seq |-> load_state(f).meta.run_seq + 1, last_run_utc |-> now],
     recs |-> EmptyRecs]

\* lines 252-254: load, bump the counter, rewrite the meta
Begin(f, now) ==
    LET st == load_state(f)
        rs == st.meta.run_seq + 1
    IN  [st EXCEPT !.meta = [run_seq |-> rs, last_run_utc |-> now]]

\* lines 358-367: what leaving the loop writes to state.json
Persisted(st, rs) == save_state(prune_state(st, rs))

\* a run can start when no run is under way
Stopped == {"idle", "raised", "crashed"}

\* rec = state.get(url, {}); rec.get(...) (lines 295-298) raises on a record
\* that is no dict
RecordRaises(recs, url) == url \in DOMAIN recs /\ IllTyped(recs[url])

\* lines 358-367: prune_state, write_outputs, save_state, done being the
\* number of prune_state calls of the run so far.  When prune_state raises
\* (line 223) the run ends there, with neither file written.
Finish(st, rs, items, done) ==
    IF PruneRaises(st)
    THEN /\ pc' = "raised"
         /\ pruned' = done
         /\ UNCHANGED <<output, file>>
    ELSE /\ pc' = "idle"
         /\ pruned' = done + 1
         /\ output' = items
         /\ file' = Persisted(st, rs)

\* the feeds of a run: entries with or without a link, every link at most
\* once (the entry list is deduplicated upstream)
Feeds == {f \in SeqsUpTo(Links, MaxFeedLen) :
            \A i, j \in 1..Len(f) : (i # j /\ f[i] # NoLink) => f[i] # f[j]}

\* feed.entries[:MAX_ENTRIES] for every feed
EntryLists == {Take(f, MAX_ENTRIES) : f \in Feeds}

EmptyHist == [u \in URLs |-> [r \in 1..MaxRuns |-> <<>>]]

(***************************************************************************)
(* Initial state: first invocation ahead, no state.json, no index.xml      *)
(***************************************************************************)
\* no call of check_url_free_open under way
PageStart ==
    /\ cpc = "goto"
    /\ views = <<>>
    /\ passes = <<>>
    /\ result = [is_free |-> FALSE, reason |-> [code |-> "none"]]

\* main before its first invocation, state.json being f
StartWith(f) ==
    /\ file = f
    /\ output = <<>>
    /\ now_utc = 0
    /\ pc = "idle"
    /\ state = FreshState
    /\ run_seq = 0
    /\ entries = <<>>
    /\ fetched = FALSE
    /\ idx = 1
    /\ items_xml = <<>>
    /\ checked = 0
    /\ errors = 0
    /\ hist = EmptyHist
    /\ pruned = 0
    /\ prev_fetched = FALSE
    /\ PageStart

Start == StartWith([kind |-> "missing", doc |-> <<>>])

\* the program as shipped
Init == CONFIRM_FREE_RUNS = DefaultConfirm /\ Start

\* the program with any configured threshold
InitCfg == CONFIRM_FREE_RUNS \in 1..MaxConfirm /\ Start

(***************************************************************************)
(* A run whose feed fetch raises (lines 249-269)                           *)
(***************************************************************************)
RunFetchFail(limit) ==
    /\ pc \in Stopped
    /\ now_utc < limit
    /\ ~BumpRaises(load_state(file))
    /\ LET st == Begin(file, now_utc + 1) IN
        /\ now_utc' = now_utc + 1
        /\ state' = st
        /\ run_seq' = st.meta.run_seq
        /\ output' = <<>>
        /\ file' = save_state(st)
    /\ pc' = "idle"
    /\ entries' = <<>>
    /\ fetched' = FALSE
    /\ prev_fetched' = fetched
    /\ pruned' = 0
    /\ idx' = 1
    /\ items_xml' = <<>>
    /\ checked' = 0
    /\ errors' = 0
    /\ UNCHANGED <<CONFIRM_FREE_RUNS, hist, pagevars>>

(***************************************************************************)
(* A run whose feed fetch delivers a feed, of which the loop takes the     *)
(* entry list es (lines 249-284); an empty list falls through the loop to  *)
(* prune and save (lines 352-367)                                          *)
(***************************************************************************)
RunFetchOk(limit, lists) ==
    /\ pc \in Stopped
    /\ now_utc < limit
    /\ ~BumpRaises(load_state(file))
    /\ \E es \in lists :
        LET st == Begin(file, now_utc + 1)
            rs == st.meta.run_seq
        IN  /\ now_utc' = now_utc + 1
            /\ state' = st
            /\ run_seq' = rs
            /\ entries' = es
            /\ IF Len(es) = 0
               THEN Finish(st, rs, <<>>, 0)
               ELSE /\ pc' = "loop"
                    /\ pruned' = 0
                    /\ UNCHANGED <<output, file>>
    /\ fetched' = TRUE
    /\ prev_fetched' = fetched
    /\ idx' = 1
    /\ items_xml' = <<>>
    /\ checked' = 0
    /\ errors' = 0
    /\ UNCHANGED <<CONFIRM_FREE_RUNS, hist, pagevars>>

\* the end of one iteration: the next entry, or out of the loop to
\* prune_state, write_outputs and save_state
Advance(st, items) ==
    /\ idx' = idx + 1
    /\ state' = st
    /\ items_xml' = items
    /\ IF idx = Len(entries)
       THEN Finish(st, run_seq, items, pruned)
       ELSE /\ pc' = "loop"
            /\ UNCHANGED <<output, file, pruned>>

(***************************************************************************)
(* One iteration over an entry without link (lines 285-287)                *)
(***************************************************************************)
SkipEntry ==
    /\ pc = "loop"
    /\ entries[idx] = NoLink
    /\ Advance(state, items_xml)
    /\ UNCHANGED <<CONFIRM_FREE_RUNS, now_utc, run_seq, entries, fetched,
                   checked, errors, hist, prev_fetched, pagevars>>

(***************************************************************************)
(* One iteration over an entry whose page check returns (lines 285-346)    *)
(***************************************************************************)
EvalEntryWith(outcome) ==
    /\ pc = "loop"
    /\ entries[idx] # NoLink
    /\ ~RecordRaises(state.recs, entries[idx])
    /\  LET url == entries[idx]
            res == check_url_free_open(outcome)
            rec == NewRecord(state.recs, url, run_seq, res)
            st  == [state EXCEPT !.recs = Store(state.recs, url, rec)]
            items == IF Emits(rec, CONFIRM_FREE_RUNS)
                     THEN Append(items_xml, url) ELSE items_xml
        IN  /\ Advance(st, items)
            /\ hist' = [hist EXCEPT ![url][run_seq] = Append(@, rec.last_status)]
    /\ checked' = checked + 1
    /\ UNCHANGED <<CONFIRM_FREE_RUNS, now_utc, run_seq, entries, fetched, errors,
                   prev_fetched, pagevars>>

EvalEntry == \E outcome \in Outcomes : EvalEntryWith(outcome)

(***************************************************************************)
(* One iteration in which browser.new_context or context.new_page raises   *)
(* (lines 181-185, outside the try of check_url_free_open): the exception  *)
(* leaves the for loop (lines 348-351); main prunes, writes and saves.     *)
(***************************************************************************)
SessionFail ==
    /\ pc = "loop"
    /\ entries[idx] # NoLink
    /\ checked' = checked + 1
    /\ errors' = errors + 1
    /\ Finish(state, run_seq, items_xml, pruned)
    /\ UNCHANGED <<CONFIRM_FREE_RUNS, now_utc, state, run_seq, entries, fetched,
                   idx, items_xml, hist, prev_fetched, pagevars>>

Next ==
    \/ RunFetchFail(MaxRuns)
    \/ RunFetchOk(MaxRuns, EntryLists)
    \/ SkipEntry
    \/ EvalEntry
    \/ SessionFail

Spec == Init /\ [][Next]_vars

NextCfg ==
    \/ RunFetchFail(MaxRunsCfg)
    \/ RunFetchOk(MaxRunsCfg, EntryLists)
    \/ SkipEntry
    \/ EvalEntry
    \/ SessionFail

SpecCfg == InitCfg /\ [][NextCfg]_vars

(***************************************************************************)
(* The program on feeds that may carry the same link more than once: main  *)
(* does not deduplicate feed.entries (line 284).                           *)
(***************************************************************************)
\* no link occurs twice in the entry list
NoRepeat(es) ==
    \A i, j \in 1..Len(es) : (i # j /\ es[i] # NoLink) => es[i] # es[j]

\* feed.entries[:MAX_ENTRIES] for every feed, repeated links included
AnyEntryLists == {Take(f, MAX_ENTRIES) : f \in SeqsUpTo(Links, MaxFeedLen)}

NextDup ==
    \/ RunFetchFail(MaxRunsDup)
    \/ RunFetchOk(MaxRunsDup, AnyEntryLists)
    \/ SkipEntry
    \/ EvalEntry
    \/ SessionFail

SpecDup == InitCfg /\ [][NextDup]_vars

(***************************************************************************)
(* The program started on a state.json it did not write: no file, text     *)
(* that is not JSON, a document that is no object, an object whose meta or *)
(* URL record is missing or of another type than the program stores.       *)
(***************************************************************************)
\* the values found at "__meta__": a meta as a run stores it, a dict without
\* run_seq, and the ill-typed ones
MetaValues ==
    {[run_seq |-> 1, last_run_utc |-> 1], [last_run_utc |-> 1]}
    \cup {[ill_typed |-> t] :
            t \in {"scalar", "sequence", "sequence_with_run_seq", "run_seq"}}

\* the values found at the URL key "A": a record as run 1 stores it, and a
\* value that is no dict
RecordValues ==
    {[last_status |-> "FREE", last_reason |-> "free_open_words",
      free_streak |-> 1, last_seen_seq |-> 1],
     [ill_typed |-> "record"]}

\* the documents that are JSON objects: "A" and "__meta__", each there or not
ObjectDocs ==
    LET members(k, vals) == {<<>>} \cup {<<[key |-> k, val |-> v]>> : v \in vals}
    IN  {a \o m : a \in members("A", RecordValues), m \in members(MetaKey, MetaValues)}

\* a document is well-formed when it is an object with a meta dict that has
\* a run_seq and every URL record of it is a dict
WellFormed(f) ==
    /\ f.kind = "object"
    /\ LET data == json_load(f.doc) IN
        /\ MetaKey \in DOMAIN data
        /\ ~IllTyped(data[MetaKey])
        /\ "run_seq" \in DOMAIN data[MetaKey]
        /\ \A u \in DOMAIN data \ {MetaKey} : ~IllTyped(data[u])

MalformedFiles ==
    {[kind |-> k, doc |-> <<>>] : k \in {"missing", "invalid_json", "non_object"}}
    \cup {f \in {[kind |-> "object", doc |-> d] : d \in ObjectDocs} : ~WellFormed(f)}

InitCorrupt ==
    /\ CONFIRM_FREE_RUNS = DefaultConfirm
    /\ \E f \in MalformedFiles : StartWith(f)

\* A run on a state whose meta is no dict or whose run_seq int() cannot
\* convert: line 253 raises outside every try and main ends in a traceback
\* before anything is fetched or written.
RunRaises(limit) ==
    /\ pc \in Stopped
    /\ now_utc < limit
    /\ BumpRaises(load_state(file))
    /\ now_utc' = now_utc + 1
    /\ state' = load_state(file)
    /\ pc' = "raised"
    /\ fetched' = FALSE
    /\ prev_fetched' = fetched
    /\ pruned' = 0
    /\ UNCHANGED <<CONFIRM_FREE_RUNS, file, output, run_seq, entries, idx,
                   items_xml, checked, errors, hist, pagevars>>

\* One iteration over an entry whose stored record is no dict: the page is
\* checked (line 293), rec.get raises (line 296), the exception leaves the
\* for loop (lines 348-351) and main goes on to prune_state.
RecordFail ==
    /\ pc = "loop"
    /\ entries[idx] # NoLink
    /\ RecordRaises(state.recs, entries[idx])
    /\ checked' = checked + 1
    /\ errors' = errors + 1
    /\ Finish(state, run_seq, items_xml, pruned)
    /\ UNCHANGED <<CONFIRM_FREE_RUNS, now_utc, state, run_seq, entries, fetched,
                   idx, items_xml, hist, prev_fetched, pagevars>>

NextCorrupt ==
    \/ RunRaises(MaxRunsCorrupt)
    \/ RunFetchFail(MaxRunsCorrupt)
    \/ RunFetchOk(MaxRunsCorrupt, EntryLists)
    \/ SkipEntry
    \/ EvalEntry
    \/ SessionFail
    \/ RecordFail

SpecCorrupt == InitCorrupt /\ [][NextCorrupt]_vars

(***************************************************************************)
(* One call of check_url_free_open (lines 177-216) on a page.  A view is   *)
(* what one signal pass finds: the phrases whose first match is visible    *)
(* when the loop of line 155 asks, whether an email input and a dialog are *)
(* visible, the phrases visible when line 166 asks again (the page is      *)
(* live, the two answers need not agree), and the word total of the        *)
(* paragraphs each of the three selectors of visible_wordcount matches.    *)
(***************************************************************************)
\* the word totals a selector can give: none, one short of the minimum, the
\* minimum
WordTotals == {0, MIN_VISIBLE_WORDS - 1, MIN_VISIBLE_WORDS}

Views ==
    [phrases : SUBSET Range(PAYWALL_PHRASES),
     email   : BOOLEAN,
     dialog  : BOOLEAN,
     late    : SUBSET Range(CTA_PHRASES),
     words   : [1..3 -> WordTotals]]

\* visible_wordcount (lines 108-137): the largest total of the selectors
RECURSIVE BestFrom(_, _, _)
BestFrom(totals, i, best) ==
    IF i > Len(totals) THEN best
    ELSE BestFrom(totals, i + 1, IF totals[i] > best THEN totals[i] ELSE best)

visible_wordcount(view) == BestFrom(view.words, 1, 0)

\* has_visible_phrase (lines 140-147) against the phrases visible now
has_visible_phrase(visible, phrase) == phrase \in visible

\* mutant: a short page passes
is_gated_free_open_only_NoWordCheck(view) ==
    LET hits == {i \in 1..Len(PAYWALL_PHRASES) :
                    has_visible_phrase(view.phrases, PAYWALL_PHRASES[i])}
        words == visible_wordcount(view)
    IN  IF hits # {}
        THEN [gated |-> TRUE,
              reason |-> [code |-> "visible_phrase",
                          phrase |-> PAYWALL_PHRASES[
                              CHOOSE i \in hits : \A j \in hits : i <= j]]]
        ELSE IF view.email /\ view.dialog
        THEN [gated |-> TRUE, reason |-> [code |-> "email_gate_visible_dialog"]]
        ELSE IF /\ view.email
                /\ \E i \in 1..Len(CTA_PHRASES) :
                       has_visible_phrase(view.late, CTA_PHRASES[i])
        THEN [gated |-> TRUE, reason |-> [code |-> "email_gate_visible_cta"]]
        ELSE [gated |-> FALSE,
              reason |-> [code |-> "free_open_words", words |-> words]]

\* mutant: a visible email input is a gate by itself
is_gated_free_open_only_BareEmail(view) ==
    LET hits == {i \in 1..Len(PAYWALL_PHRASES) :
                    has_visible_phrase(view.phrases, PAYWALL_PHRASES[i])}
        words == visible_wordcount(view)
    IN  IF hits # {}
        THEN [gated |-> TRUE,
              reason |-> [code |-> "visible_phrase",
                          phrase |-> PAYWALL_PHRASES[
                              CHOOSE i \in hits : \A j \in hits : i <= j]]]
        ELSE IF view.email /\ view.dialog
        THEN [gated |-> TRUE, reason |-> [code |-> "email_gate_visible_dialog"]]
        ELSE IF view.email
        THEN [gated |-> TRUE, reason |-> [code |-> "email_gate_visible_cta"]]
        ELSE IF words < MIN_VISIBLE_WORDS
        THEN [gated |-> TRUE,
              reason |-> [code |-> "content_too_short_words", words |-> words]]
        ELSE [gated |-> FALSE,
              reason |-> [code |-> "free_open_words", words |-> words]]

\* is_gated_free_open_only (lines 150-174): (gated, reason) of one pass
is_gated_free_open_only(view) ==
    LET hits == {i \in 1..Len(PAYWALL_PHRASES) :
                    has_visible_phrase(view.phrases, PAYWALL_PHRASES[i])}
        words == visible_wordcount(view)
    IN  IF hits # {}
        THEN [gated |-> TRUE,
              reason |-> [code |-> "visible_phrase",
                          phrase |-> PAYWALL_PHRASES[
                              CHOOSE i \in hits : \A j \in hits : i <= j]]]
        ELSE IF view.email /\ view.dialog
        THEN [gated |-> TRUE, reason |-> [code |-> "email_gate_visible_dialog"]]
        ELSE IF /\ view.email
                /\ \E i \in 1..Len(CTA_PHRASES) :
                       has_visible_phrase(view.late, CTA_PHRASES[i])
        THEN [gated |-> TRUE, reason |-> [code |-> "email_gate_visible_cta"]]
        ELSE IF words < MIN_VISIBLE_WORDS
        THEN [gated |-> TRUE,
              reason |-> [code |-> "content_too_short_words", words |-> words]]
        ELSE [gated |-> FALSE,
              reason |-> [code |-> "free_open_words", words |-> words]]

\* f"{reason}_after_scroll" (line 200)
AfterScroll(reason) ==
    [k \in DOMAIN reason \cup {"suffix"} |->
        IF k = "suffix" THEN "_after_scroll" ELSE reason[k]]

\* lines 187-192: the page loads and the first pass looks at it
FirstPass ==
    /\ cpc = "goto"
    /\ \E view \in Views :
        LET pass == is_gated_free_open_only(view) IN
        /\ views' = <<view>>
        /\ passes' = <<pass>>
        /\ IF pass.gated
           THEN /\ result' = [is_free |-> FALSE, reason |-> pass.reason]
                /\ cpc' = "done"
           ELSE /\ cpc' = "scroll"
                /\ UNCHANGED result
    /\ UNCHANGED mainvars

\* lines 194-202: the scroll, and the second pass on what the page shows then
SecondPass ==
    /\ cpc = "scroll"
    /\ \E view \in Views :
        LET pass == is_gated_free_open_only(view) IN
        /\ views' = Append(views, view)
        /\ passes' = Append(passes, pass)
        /\ result' = IF pass.gated
                     THEN [is_free |-> FALSE, reason |-> AfterScroll(pass.reason)]
                     ELSE [is_free |-> TRUE, reason |-> pass.reason]
    /\ cpc' = "done"
    /\ UNCHANGED mainvars

\* lines 204-205: a browser call of the try times out
TimesOut ==
    /\ cpc \in {"goto", "scroll"}
    /\ result' = [is_free |-> FALSE, reason |-> [code |-> "playwright_timeout_drop"]]
    /\ cpc' = "done"
    /\ UNCHANGED <<mainvars, views, passes>>

\* lines 206-207: a browser call of the try raises something else
Raises ==
    /\ cpc \in {"goto", "scroll"}
    /\ result' = [is_free |-> FALSE, reason |-> [code |-> "playwright_error_drop"]]
    /\ cpc' = "done"
    /\ UNCHANGED <<mainvars, views, passes>>

NextPage ==
    \/ FirstPass
    \/ SecondPass
    \/ TimesOut
    \/ Raises

SpecPage == Init /\ [][NextPage]_vars

(***************************************************************************)
(* The process dies inside save_state (lines 103-105): open(STATE_FILE,    *)
(* "w") has emptied state.json and json.dump has written the first n       *)
(* members of the document, not all of them.  save_state is the last       *)
(* statement of a run on both of its paths (lines 268, 367), so the crash  *)
(* is taken from the state in which the run has ended: what the run wrote  *)
(* to index.xml stands, state.json holds the cut-off text.                 *)
(***************************************************************************)
SaveCrash ==
    /\ pc = "idle"
    /\ now_utc > 0
    /\ file.kind = "object"
    /\ \E n \in 0..(Len(file.doc) - 1) :
        file' = [kind |-> "invalid_json", doc |-> Take(file.doc, n)]
    /\ pc' = "crashed"
    /\ UNCHANGED <<CONFIRM_FREE_RUNS, output, now_utc, state, run_seq, entries,
                   fetched, idx, items_xml, checked, errors, hist, pruned,
                   prev_fetched, pagevars>>

NextCrash ==
    \/ RunFetchFail(MaxRunsCrash)
    \/ RunFetchOk(MaxRunsCrash, EntryLists)
    \/ SkipEntry
    \/ EvalEntry
    \/ SessionFail
    \/ SaveCrash

SpecCrash == Init /\ [][NextCrash]_vars


(***************************************************************************)
(* Vocabulary of the properties                                            *)
(***************************************************************************)
\* the run_seq state.json holds (0 when there is no file)
PersistedSeq == load_state(file).meta.run_seq

\* the URL records state.json holds
PersistedRecs == load_state(file).recs

\* url was given a FREE verdict in run r
FreeIn(url, r) == r \in 1..MaxRuns /\ "FREE" \in Range(hist[url][r])

\* url was evaluated in run r, once, and found free / gated
OnceFreeIn(url, r) == r \in 1..MaxRuns /\ hist[url][r] = <<"FREE">>
EvaluatedIn(url, r) == r \in 1..MaxRuns /\ hist[url][r] # <<>>

\* the number of consecutive runs up to r in each of which url was found free
RECURSIVE TrailingFree(_, _)
TrailingFree(url, r) ==
    IF OnceFreeIn(url, r) THEN 1 + TrailingFree(url, r - 1) ELSE 0

\* this step gives url a verdict
Evaluates(url, verdict) ==
    /\ pc = "loop"
    /\ hist'[url][run_seq] = Append(hist[url][run_seq], verdict)

\* C1: a URL is among the items of run r (emitted so far, or written to
\* index.xml at its end) only if it was classified FREE in each of the runs
\* r - CONFIRM_FREE_RUNS + 1 .. r; so with threshold 2 one FREE verdict after a
\* GATED one, an absence or no record never publishes.
C1_PublishedOnlyAfterConsecutiveFree ==
    /\ \A u \in Range(items_xml) :
        \A j \in (run_seq - CONFIRM_FREE_RUNS + 1)..run_seq : FreeIn(u, j)
    /\ \A u \in Range(output) :
        \A j \in (PersistedSeq - CONFIRM_FREE_RUNS + 1)..PersistedSeq : FreeIn(u, j)

\* threshold 3: a URL written to index.xml by run 3
C1_Witness ==
    /\ CONFIRM_FREE_RUNS = 3
    /\ pc = "idle"
    /\ run_seq = 3
    /\ "A" \in Range(output)


\* C2: a URL given a GATED verdict in the current run has, whatever its
\* record was before, the record GATED with free_streak 0, in main's state
\* and in state.json once the run has saved, and is not among the run's items.
C2_GatedResetsStreak ==
    \A u \in URLs :
        (run_seq \in 1..MaxRuns /\ "GATED" \in Range(hist[u][run_seq])) =>
            /\ u \in DOMAIN state.recs
            /\ state.recs[u].last_status = "GATED"
            /\ state.recs[u].free_streak = 0
            /\ u \notin Range(items_xml)
            /\ pc = "idle" =>
                /\ u \in DOMAIN PersistedRecs
                /\ PersistedRecs[u].last_status = "GATED"
                /\ PersistedRecs[u].free_streak = 0
                /\ u \notin Range(output)

\* a URL with streak 2 found gated in run 3
C2_Witness ==
    /\ pc = "idle"
    /\ run_seq = 3
    /\ hist["A"][1] = <<"FREE">>
    /\ hist["A"][2] = <<"FREE">>
    /\ hist["A"][3] = <<"GATED">>
    /\ PersistedRecs["A"].free_streak = 0

C3_Step ==
    \A u \in URLs :
        ( /\ Evaluates(u, "FREE")
          /\ u \in DOMAIN state.recs
          /\ state.recs[u].last_status = "FREE"
          /\ state.recs[u].last_seen_seq = run_seq - 1 )
        => state'.recs[u].free_streak = state.recs[u].free_streak + 1

C3_Streak ==
    \A u \in URLs :
        OnceFreeIn(u, run_seq) =>
            /\ u \in DOMAIN state.recs
            /\ state.recs[u].free_streak = TrailingFree(u, run_seq)
            /\ pc = "idle" =>
                /\ u \in DOMAIN PersistedRecs
                /\ PersistedRecs[u].free_streak = TrailingFree(u, run_seq)

\* C3: a FREE verdict for a URL whose record is FREE and was last seen in run
\* run_seq - 1 stores free_streak = prior free_streak + 1; hence the streak of
\* a URL found free in the current run is the number of consecutive runs, up
\* to this one, in which it was found free (k after the k-th of them).
C3_ConsecutiveFreeIncrements == [][C3_Step]_vars /\ []C3_Streak

\* found free in runs 1, 2 and 3: streak 3
C3_Witness ==
    /\ pc = "idle"
    /\ run_seq = 3
    /\ TrailingFree("A", 3) = 3
    /\ PersistedRecs["A"].free_streak = 3

C4_Step ==
    \A u \in URLs :
        ( /\ Evaluates(u, "FREE")
          /\ \/ u \notin DOMAIN state.recs
             \/ state.recs[u].last_status = "GATED"
             \/ state.recs[u].last_seen_seq # run_seq - 1 )
        => /\ state'.recs[u].free_streak = 1
           /\ CONFIRM_FREE_RUNS >= 2 => items_xml' = items_xml

C4_Gap ==
    \A u \in URLs :
        (OnceFreeIn(u, run_seq) /\ ~EvaluatedIn(u, run_seq - 1)) =>
            /\ state.recs[u].free_streak = 1
            /\ CONFIRM_FREE_RUNS >= 2 =>
                /\ u \notin Range(items_xml)
                /\ pc = "idle" => u \notin Range(output)

\* C4: a FREE verdict for a URL with no record, with a GATED record or with a
\* record not last seen in run run_seq - 1 stores free_streak = 1; a URL found
\* free in run N + 2 that was not evaluated in run N + 1 has streak 1 and,
\* with a threshold of 2 or more, is not published.
C4_GapBreaksStreak == [][C4_Step]_vars /\ []C4_Gap

\* free in runs 1 and 2 (streak 2), not evaluated in run 3, free in run 4
C4_Witness ==
    /\ pc = "idle"
    /\ run_seq = 4
    /\ hist["A"][1] = <<"FREE">>
    /\ hist["A"][2] = <<"FREE">>
    /\ hist["A"][3] = <<>>
    /\ hist["A"][4] = <<"FREE">>
    /\ PersistedRecs["A"].free_streak = 1
    /\ "A" \notin Range(output)

\* C5: a URL evaluated in the current run is among its items iff its record
\* is FREE with free_streak >= CONFIRM_FREE_RUNS, that is iff it was found
\* free in each of the last CONFIRM_FREE_RUNS runs (threshold 2: not in run 1,
\* in run 2, in every later run of the unbroken streak); in the run where it
\* is found gated it is not among them and its streak is 0.
C5_PublishedIffConfirmed ==
    \A u \in URLs :
        EvaluatedIn(u, run_seq) =>
            /\ u \in Range(items_xml) <=>
                 ( /\ state.recs[u].last_status = "FREE"
                   /\ state.recs[u].free_streak >= CONFIRM_FREE_RUNS )
            /\ u \in Range(items_xml) <=>
                 TrailingFree(u, run_seq) >= CONFIRM_FREE_RUNS
            /\ hist[u][run_seq] = <<"GATED">> => state.recs[u].free_streak = 0
            /\ pc = "idle" =>
                 ( u \in Range(output) <=>
                     ( /\ PersistedRecs[u].last_status = "FREE"
                       /\ PersistedRecs[u].free_streak >= CONFIRM_FREE_RUNS ) )

\* threshold 2, free in runs 1, 2 and 3: still published by run 3
C5_Witness ==
    /\ CONFIRM_FREE_RUNS = 2
    /\ pc = "idle"
    /\ run_seq = 3
    /\ TrailingFree("B", 3) = 3
    /\ "B" \in Range(output)

C6_Step ==
    \A o \in {"timeout", "error"} :
        EvalEntryWith(o) =>
            LET u == entries[idx] IN
            /\ state'.recs[u].last_status = "GATED"
            /\ state'.recs[u].free_streak = 0
            /\ state'.recs[u].last_reason =
                 (IF o = "timeout" THEN "playwright_timeout_drop"
                                   ELSE "playwright_error_drop")
            /\ state'.recs[u].last_reason \notin
                 {check_url_free_open("free").reason,
                  check_url_free_open("gated").reason}
            /\ items_xml' = items_xml
            /\ u \notin Range(items_xml')
            /\ pc' = "idle" =>
                /\ u \notin Range(output')
                /\ load_state(file').recs[u].last_status = "GATED"
                /\ load_state(file').recs[u].free_streak = 0

C7_FailureDoesNotAbortLaterEntries ==
    (pc = "idle" /\ fetched) =>
        \A i \in 1..Len(entries) :
            (entries[i] # NoLink /\ ~(errors > 0 /\ i = idx)) =>
                /\ EvaluatedIn(entries[i], run_seq)
                /\ entries[i] \in DOMAIN PersistedRecs
                /\ PersistedRecs[entries[i]].last_seen_seq = run_seq

\* the last run in which url was evaluated (0: never)
LastEvaluated(url) ==
    LET runs == {r \in 1..MaxRuns : EvaluatedIn(url, r)}
    IN  IF runs = {} THEN 0 ELSE CHOOSE r \in runs : \A q \in runs : q <= r

\* C8: after a run, a URL last evaluated in run k is in state.json while
\* run_seq <= k + PRUNE_AFTER_RUNS and is not in state.json after the run with
\* run_seq = k + PRUNE_AFTER_RUNS + 1.
C8_PrunedRightAfterRetention ==
    pc = "idle" =>
        \A u \in URLs :
            LET k == LastEvaluated(u) IN
            k > 0 =>
                /\ PersistedSeq \in k..(k + PRUNE_AFTER_RUNS) =>
                     ( /\ u \in DOMAIN PersistedRecs
                       /\ PersistedRecs[u].last_seen_seq = k )
                /\ PersistedSeq = k + PRUNE_AFTER_RUNS + 1 =>
                     u \notin DOMAIN PersistedRecs

C9_Counter ==
    /\ pc = "idle" =>
        /\ PersistedSeq = now_utc
        /\ run_seq = now_utc
        /\ now_utc > 0 => file.kind = "object"
    /\ pc = "loop" =>
        /\ run_seq = PersistedSeq + 1
        /\ run_seq = now_utc
        /\ state.meta.run_seq = run_seq

C9_Step ==
    /\ file' # file => PersistedSeq' = PersistedSeq + 1
    /\ now_utc' # now_utc => run_seq' = PersistedSeq + 1

\* C9: every invocation works with run_seq = loaded run_seq + 1 from before
\* its first evaluation on and saves it, whether the feed fetch succeeds or
\* fails: after n invocations state.json holds run_seq = n, every save raises
\* the persisted run_seq by exactly 1, and the prune before the save leaves it
\* alone.
C9_RunSeqIncrementsByOne == []C9_Counter /\ [][C9_Step]_vars

\* two invocations, the second with a failed fetch, records kept
C9_Witness ==
    /\ pc = "idle"
    /\ now_utc = 2
    /\ ~fetched
    /\ PersistedSeq = 2
    /\ "B" \in DOMAIN PersistedRecs

C10_Step ==
    (now_utc' # now_utc /\ ~fetched') =>
        /\ pc' = "idle"
        /\ file'.kind = "object"
        /\ load_state(file').meta =
             [run_seq |-> PersistedSeq + 1, last_run_utc |-> now_utc']
        /\ load_state(file').recs = PersistedRecs
        /\ hist' = hist
        /\ checked' = 0
        /\ items_xml' = <<>>
        /\ output' = <<>>

\* C10: a run whose feed fetch fails saves state.json with run_seq raised by
\* one and last_run_utc set to the run's time, gives no URL a verdict, leaves
\* every URL record as it was loaded, and writes an index.xml without items.
C10_FailedFetchOnlyBumpsMeta == [][C10_Step]_vars

\* run 3 fails to fetch after run 2 published A: the record of A is kept,
\* index.xml is empty
C10_Witness ==
    /\ pc = "idle"
    /\ run_seq = 3
    /\ ~fetched
    /\ TrailingFree("A", 2) = 2
    /\ "A" \in DOMAIN PersistedRecs
    /\ PersistedRecs["A"].free_streak = 2
    /\ load_state(file).meta = [run_seq |-> 3, last_run_utc |-> 3]
    /\ output = <<>>

\* C11: whatever is wrong with state.json (no file, no JSON, no object, meta
\* or run_seq missing or ill-typed, a URL record ill-typed), the first run
\* does not fail, works with run_seq = 1 and starts from an empty store: the
\* only URL records it holds are those of the URLs it evaluated itself.
C11_MalformedStateIsReset ==
    now_utc = 1 =>
        /\ pc # "raised"
        /\ run_seq = 1
        /\ \A u \in DOMAIN state.recs : EvaluatedIn(u, 1)

\* C12: whether or not a run's process died in save_state, state.json is
\* never empty or cut off: there is no file yet, or it is a complete
\* document, that of the run before or that of the run.
C12_SaveIsCrashAtomic ==
    /\ file.kind \in {"missing", "object"}
    /\ file.kind = "object" =>
        /\ PersistedSeq \in {run_seq - 1, run_seq}
        /\ file.doc = json_dump(load_state(file))

\* the store the last run handed to save_state: pruned on the path that
\* obtained the feed (line 358), as it stood on the other (line 268)
SavedStore == IF fetched THEN prune_state(state, run_seq) ELSE state

\* C13: for the store x a run saves, load_state reads back from the saved
\* state.json a state equal to x, meta and every URL record, and saving what
\* was read gives the same document again; state.json is that document.
C13_SaveLoadRoundTrip ==
    (pc = "idle" /\ now_utc > 0) =>
        LET x == SavedStore
            saved == save_state(x)
            loaded == load_state(saved)
        IN  /\ file = saved
            /\ loaded = x
            /\ save_state(loaded) = saved

\* a saved store with the records of both URLs
C13_Witness ==
    /\ pc = "idle"
    /\ run_seq = 2
    /\ DOMAIN SavedStore.recs = {"A", "B"}
    /\ Len(file.doc) = 3
    /\ load_state(file) = SavedStore

\* the streak a verdict gives url, from url's own record alone
OwnStreak(url, verdict) ==
    IF verdict = "GATED" THEN 0
    ELSE IF /\ url \in DOMAIN state.recs
            /\ state.recs[url].last_status = "FREE"
            /\ state.recs[url].last_seen_seq = run_seq - 1
         THEN state.recs[url].free_streak + 1
         ELSE 1

C14_Step ==
    \A u \in URLs : \A verdict \in {"FREE", "GATED"} :
        Evaluates(u, verdict) =>
            /\ DOMAIN state'.recs = DOMAIN state.recs \cup {u}
            /\ \A v \in DOMAIN state.recs \ {u} : state'.recs[v] = state.recs[v]
            /\ state'.recs[u].last_status = verdict
            /\ state'.recs[u].last_seen_seq = run_seq
            /\ state'.recs[u].free_streak = OwnStreak(u, verdict)
            /\ items_xml' = IF OwnStreak(u, verdict) >= CONFIRM_FREE_RUNS
                            THEN Append(items_xml, u) ELSE items_xml

C14_Scenario ==
    (pc = "idle" /\ Range(entries) = {"A", "B"}) =>
        /\ ( /\ run_seq = 2
             /\ \A u \in URLs : \A r \in 1..2 : hist[u][r] = <<"FREE">> )
           => Range(output) = {"A", "B"}
        /\ ( /\ run_seq = 3
             /\ \A u \in URLs : \A r \in 1..2 : hist[u][r] = <<"FREE">>
             /\ hist["A"][3] = <<"GATED">>
             /\ hist["B"][3] = <<"FREE">> )
           => /\ Range(output) = {"B"}
              /\ PersistedRecs["A"].free_streak = 0
              /\ PersistedRecs["B"].free_streak = 3

\* C14: the step that gives a URL its verdict leaves the record of every
\* other URL as it was, and the record it stores and whether it emits an
\* item follow from that URL's own prior record, its verdict and run_seq.
\* With A and B found free in runs 1 and 2, run 2 publishes both; with A
\* gated and B free in run 3, run 3 publishes B alone, A's streak is 0 and
\* B's is 3.
C14_RecordsEvolveIndependently == [][C14_Step]_vars /\ []C14_Scenario

\* run 3 of the scenario, A evaluated before B
C14_Witness ==
    /\ pc = "idle"
    /\ run_seq = 3
    /\ entries = <<"A", "B">>
    /\ \A u \in URLs : \A r \in 1..2 : hist[u][r] = <<"FREE">>
    /\ hist["A"][3] = <<"GATED">>
    /\ hist["B"][3] = <<"FREE">>
    /\ output = <<"B">>
    /\ PersistedRecs["B"].free_streak = 3

\* the first run in which url was found free (0: in none)
FirstFree(url) ==
    LET runs == {r \in 1..MaxRuns : FreeIn(url, r)}
    IN  IF runs = {} THEN 0 ELSE CHOOSE r \in runs : \A q \in runs : r <= q

\* C15: every URL of state.json was evaluated in one of the runs up to the
\* persisted run_seq, and its free_streak is at most run_seq - s + 1, s being
\* the first run that found it free (0 when no run has).
C15_StreakBoundedByRunsSinceFirstFree ==
    LET store == load_state(file)
        seq == store.meta.run_seq
    IN  \A u \in DOMAIN store.recs :
            LET s == FirstFree(u)
                free_streak == store.recs[u].free_streak
            IN  /\ \E r \in 1..seq : EvaluatedIn(u, r)
                /\ free_streak >= 0
                /\ IF s \in 1..seq
                   THEN free_streak <= seq - s + 1
                   ELSE free_streak = 0

\* gated in run 1, free in runs 2 and 3: the streak 2 = 3 - 2 + 1 is the bound
C15_Witness ==
    /\ pc = "idle"
    /\ PersistedSeq = 3
    /\ hist["A"][1] = <<"GATED">>
    /\ FirstFree("A") = 2
    /\ PersistedRecs["A"].free_streak = 2

\* C16: every run prunes exactly once, and what it saves is the pruned
\* store: when a run has ended, prune_state has been called once in it and
\* state.json holds no URL record last seen before the cutoff; while the loop
\* is advancing records prune_state has not been called yet.
C16_PrunedOnceBeforeEverySave ==
    /\ pc = "loop" => pruned = 0
    /\ (pc = "idle" /\ now_utc > 0) =>
        /\ pruned = 1
        /\ \A u \in DOMAIN PersistedRecs : ~Stale(PersistedRecs[u], PersistedSeq)

\* a view shows a gate signal: a paywall phrase, or an email input next to a
\* dialog or to one of the two call-to-action phrases
CtaVisible(view) == view.late \cap Range(CTA_PHRASES) # {}

GateSignal(view) ==
    \/ view.phrases # {}
    \/ view.email /\ (view.dialog \/ CtaVisible(view))

\* the visible word count of a view is at least n
WordsAtLeast(view, n) == \E i \in DOMAIN view.words : view.words[i] >= n

\* C17: a call returns FREE only after two passes neither of which saw a
\* gate signal and both of which counted at least MIN_VISIBLE_WORDS words; a
\* first pass that is gated ends the call, GATED with that pass's reason and
\* no second pass; a second pass that is gated gives GATED with its reason
\* followed by "_after_scroll".
C17_FreeOnlyAfterTwoCleanPasses ==
    /\ (cpc = "done" /\ result.is_free) =>
        /\ Len(views) = 2
        /\ \A i \in 1..2 :
            /\ ~GateSignal(views[i])
            /\ WordsAtLeast(views[i], MIN_VISIBLE_WORDS)
            /\ ~passes[i].gated
    /\ (Len(passes) >= 1 /\ passes[1].gated) =>
        /\ cpc = "done"
        /\ Len(views) = 1
        /\ result = [is_free |-> FALSE, reason |-> passes[1].reason]
        /\ "suffix" \notin DOMAIN result.reason
    /\ (Len(passes) = 2 /\ passes[2].gated) =>
        /\ ~passes[1].gated
        /\ ~result.is_free
        /\ result.reason.suffix = "_after_scroll"
        /\ \A k \in DOMAIN passes[2].reason :
            result.reason[k] = passes[2].reason[k]
        /\ DOMAIN result.reason = DOMAIN passes[2].reason \cup {"suffix"}

\* a page that is clean at first and shows a dialog with an email input
\* after the scroll
C17_Witness ==
    /\ cpc = "done"
    /\ Len(passes) = 2
    /\ ~GateSignal(views[1])
    /\ views[2].email /\ views[2].dialog /\ views[2].phrases = {}
    /\ result.reason =
         [code |-> "email_gate_visible_dialog", suffix |-> "_after_scroll"]

\* C18: in a pass that sees an email input but no dialog, no call-to-action
\* phrase and no paywall phrase, the word count alone decides: gated with
\* "content_too_short_words=<n>" iff n < MIN_VISIBLE_WORDS; and a pass gives
\* an email-gate verdict only when the email input is visible together with
\* a dialog or a call-to-action phrase.
C18_BareEmailInputIsNoGate ==
    \A i \in 1..Len(views) :
        LET view == views[i]
            n == visible_wordcount(view)
        IN  /\ ( /\ view.email
                 /\ ~view.dialog
                 /\ ~CtaVisible(view)
                 /\ view.phrases = {} )
               => /\ passes[i].gated <=> n < MIN_VISIBLE_WORDS
                  /\ passes[i].gated <=> ~WordsAtLeast(view, MIN_VISIBLE_WORDS)
                  /\ passes[i].reason =
                       [code |-> IF n < MIN_VISIBLE_WORDS
                                 THEN "content_too_short_words"
                                 ELSE "free_open_words",
                        words |-> n]
            /\ passes[i].reason.code
                    \in {"email_gate_visible_dialog", "email_gate_visible_cta"}
               => /\ view.email
                  /\ view.dialog \/ CtaVisible(view)

\* a long article with a newsletter field: email input, nothing else, both
\* passes, found free
C18_Witness ==
    /\ cpc = "done"
    /\ Len(views) = 2
    /\ \A i \in 1..2 :
        /\ views[i].email
        /\ ~views[i].dialog
        /\ ~CtaVisible(views[i])
        /\ views[i].phrases = {}
    /\ result.is_free
    /\ result.reason = [code |-> "free_open_words", words |-> MIN_VISIBLE_WORDS]

\* the URLs state.json holds as found free in the persisted run with a
\* confirmed streak
ConfirmedNow ==
    {u \in DOMAIN PersistedRecs :
        /\ PersistedRecs[u].last_seen_seq = PersistedSeq
        /\ PersistedRecs[u].last_status = "FREE"
        /\ PersistedRecs[u].free_streak >= CONFIRM_FREE_RUNS}

\* the items of index.xml are those URLs, each once
EmittedAreConfirmedNow ==
    /\ Range(output) = ConfirmedNow
    /\ \A i, j \in 1..Len(output) : i # j => output[i] # output[j]

\* C19 as stated: after every run that has saved, whatever its entry list,
\* the URLs of index.xml are exactly the URLs whose record in state.json was
\* last seen in this run, is FREE and has free_streak >= CONFIRM_FREE_RUNS,
\* and none is emitted twice.
C19_EmittedAreConfirmed_AnyList ==
    (pc = "idle" /\ now_utc > 0) => EmittedAreConfirmedNow

\* C19, amended: the same after every run whose entry list carries no link
\* twice.
C19_EmittedAreConfirmed ==
    (pc = "idle" /\ now_utc > 0 /\ NoRepeat(entries)) => EmittedAreConfirmedNow

\* threshold 2, run 2 on [A, B], only A confirmed; run 1 had A twice
C19_Witness ==
    /\ CONFIRM_FREE_RUNS = 2
    /\ pc = "idle"
    /\ run_seq = 2
    /\ entries = <<"A", "B">>
    /\ Len(hist["A"][1]) = 2
    /\ output = <<"A">>
    /\ ConfirmedNow = {"A"}
    /\ PersistedRecs["B"].last_status = "FREE"

\* the current (last) run follows a run whose feed fetch failed
AfterFailedFetch == now_utc >= 2 /\ ~prev_fetched

\* C20: in the run that follows a run whose feed fetch failed, no record was
\* last seen in run run_seq - 1, so every URL found free gets free_streak 1
\* whatever its streak was before, and with a threshold of 2 or more the run
\* emits no item and writes an index.xml without items.
C20_FailedFetchBreaksStreaks ==
    (AfterFailedFetch /\ pc \in {"loop", "idle"}) =>
        /\ \A u \in DOMAIN state.recs : state.recs[u].last_seen_seq # run_seq - 1
        /\ \A u \in URLs : ~EvaluatedIn(u, run_seq - 1)
        /\ \A u \in URLs :
            OnceFreeIn(u, run_seq) => state.recs[u].free_streak = 1
        /\ CONFIRM_FREE_RUNS >= 2 =>
            /\ items_xml = <<>>
            /\ pc = "idle" => output = <<>>

\* A free in runs 1 and 2 (published by run 2), run 3 fails to fetch, A and
\* B free in run 4: streak 1, nothing published
C20_Witness ==
    /\ AfterFailedFetch
    /\ pc = "idle"
    /\ run_seq = 4
    /\ fetched
    /\ hist["A"][1] = <<"FREE">>
    /\ hist["A"][2] = <<"FREE">>
    /\ hist["A"][4] = <<"FREE">>
    /\ hist["B"][4] = <<"FREE">>
    /\ PersistedRecs["A"].free_streak = 1
    /\ output = <<>>

=============================================================================
